---- MODULE Spec2Model ----
(***************************************************************************)
(* Recitation pipeline of the Bible Memorizer application:                 *)
(*   routes/api.py   submit_recitation                                     *)
(*   models/verse.py RecitationAttempt.create, StudentProgress.update_progress *)
(* Each request handler (a thread of the Flask server) runs                *)
(* submit_recitation as a sequence of database statements, every one on    *)
(* its own connection and committed on its own, so the statements of two   *)
(* handlers interleave.                                                    *)
(***************************************************************************)
EXTENDS Integers, Sequences, FiniteSets, TLC

\* ---------------------------------------------------------------- bounds
MaxAttempts == 2            \* rows the recitation_attempts table may hold
NumHandlers == 2            \* request handlers running at the same time
MaxTextLen  == 4            \* characters of a text given to normalize_string
MaxWords    == 5            \* tokens of a text given to the alignment
NumVerses   == 3            \* rows of the verses table
MaxUsers    == 2            \* users rows made by registering or as a guest session
MaxMemberships == 2         \* rows the class_memberships table may hold

\* ------------------------------------------------------------- constants
PassingScore == 90          \* is_passing = score >= 90

Handlers == 1..NumHandlers
Students == {1, 2}          \* user ids a submission is attributed to
VerseIds == {1}             \* verse ids a submission names
Scores   == {89, 90, 95}    \* data['score'] of a submission
NoTime   == 0               \* SQL NULL / Python None in a timestamp column
Clients  == {1, 2}          \* browser sessions
verses   == 1..NumVerses    \* ids of the rows of the verses table

VARIABLES
    recitation_attempts,    \* table: sequence of rows in insertion order
    student_progress,       \* table: sequence of rows in insertion order
    now,                    \* clock read by CURRENT_TIMESTAMP / datetime.now();
                            \* it advances once per update_progress call
    pc,                     \* handler -> position in submit_recitation
    req,                    \* handler -> the submission being handled
    frame,                  \* handler -> local variables of the handler
    users,                  \* table: sequence of rows in insertion order
    session,                \* client -> session['anonymous_user_id'] in the
                            \* client's cookie, 0 when absent
    recitation_errors,      \* table: sequence of rows in insertion order
    current_user,           \* client -> the user id flask_login keeps in the
                            \* client's cookie, 0 when not logged in
    class_memberships,      \* table: sequence of rows in insertion order
    classes,                \* table: sequence of rows in insertion order
    args,                   \* arguments of a function applied on its own
    result                  \* what that function returned

vars == <<recitation_attempts, student_progress, now, pc, req, frame,
          users, session, recitation_errors, current_user, class_memberships,
          classes, args, result>>

\* what submit_recitation reads or writes besides the attempt and its summary
api == <<users, session, recitation_errors>>

\* a function applied on its own
call == <<args, result>>

\* what the login and the class routes read or write
web == <<current_user, class_memberships, classes>>

\* -------------------------------------------------------------- helpers
SelectRows(table, student_id, verse_id) ==
    SelectSeq(table, LAMBDA r : r.student_id = student_id /\ r.verse_id = verse_id)

Max(a, b) == IF a >= b THEN a ELSE b

RECURSIVE GCD(_, _)
GCD(a, b) == IF b = 0 THEN a ELSE GCD(b, a % b)

\* a rational number n/d in lowest terms (average_score is a REAL column)
Rat(n, d) == LET g == GCD(n, d) IN <<n \div g, d \div g>>

\* the JSON body of a submission and the identity it is attributed to:
\* fields are the keys present among the required ones, diff says whether the
\* key 'diff' is present, correctAnswer is empty when the key is absent
RequiredFields == {"verseId", "recitation", "score"}

\* A request also carries the session of its client as the cookie held it when
\* the request was sent: anonymous_user_id and current_user are the handler's
\* own copy, modified says whether the handler has changed it. route,
\* student_id and class_id are the rule and the ids named by the other routes.
NoRequest == [client |-> 0, user_id |-> 0, fields |-> {}, verseId |-> 0,
              score |-> 0, recitation |-> <<>>, diff |-> FALSE,
              correctAnswer |-> <<>>,
              anonymous_user_id |-> 0, current_user |-> 0, modified |-> FALSE,
              route |-> "none", student_id |-> 0, class_id |-> 0]
\* status and body are the response of a route that reads
NoFrame   == [attempt_number |-> 0, attempt_id |-> 0, is_passing |-> FALSE,
              current |-> <<>>, error |-> "none", status |-> 0, body |-> <<>>]

\* The connection update_progress opens has no row_factory, so fetchone()
\* returns a plain tuple; every other reader in the repository sets
\* db.row_factory = sqlite3.Row before querying.
row_factory == "tuple"

\* the table without the constraint: every INSERT is accepted
UniqueStudentVerse_Dropped(table, student_id, verse_id) ==
    TRUE

\* UNIQUE (student_id, verse_id) on student_progress: would inserting a row
\* for this pair be accepted by the table?
UniqueStudentVerse(table, student_id, verse_id) ==
    Len(SelectRows(table, student_id, verse_id)) = 0

\* ------------------------------------------------------------------ Init
\* the database after init_db and the handlers before any request
InitDb ==
    /\ recitation_attempts = <<>>
    /\ student_progress = <<>>
    /\ now = 1
    /\ pc = [h \in Handlers |-> "idle"]
    /\ req = [h \in Handlers |-> NoRequest]
    /\ frame = [h \in Handlers |-> NoFrame]
    /\ users = <<>>
    /\ session = [c \in Clients |-> 0]
    /\ recitation_errors = <<>>
    /\ current_user = [c \in Clients |-> 0]
    /\ class_memberships = <<>>
    /\ classes = <<>>

Init ==
    /\ InitDb
    /\ args = <<>>
    /\ result = <<>>

InFlight == {h \in Handlers : pc[h] \in {"user", "count", "create"}}

\* POST /api/recitations arrives at handler h from a logged-in user, with
\* the required fields and no 'diff'
Receive(h, user_id, verseId, score) ==
    /\ pc[h] = "idle"
    /\ Len(recitation_attempts) + Cardinality(InFlight) < MaxAttempts
    /\ req' = [req EXCEPT ![h] = [NoRequest EXCEPT !.user_id = user_id,
                                                   !.fields = RequiredFields,
                                                   !.verseId = verseId,
                                                   !.score = score]]
    /\ frame' = [frame EXCEPT ![h] = NoFrame]
    /\ pc' = [pc EXCEPT ![h] = "count"]
    /\ UNCHANGED <<recitation_attempts, student_progress, now, api, call, web>>

\* RecitationAttempt.get_student_attempts: the student's attempts for the
\* verse, joined with the verses table
get_student_attempts(student_id, verse_id) ==
    SelectSeq(SelectRows(recitation_attempts, student_id, verse_id),
              LAMBDA r : r.verse_id \in verses)

\* attempts = RecitationAttempt.get_student_attempts(user_id, verseId)
\* attempt_number = len(attempts) + 1
CountAttempts(h) ==
    /\ pc[h] = "count"
    /\ frame' = [frame EXCEPT ![h].attempt_number =
                    Len(get_student_attempts(req[h].user_id, req[h].verseId)) + 1]
    /\ pc' = [pc EXCEPT ![h] = "create"]
    /\ UNCHANGED <<recitation_attempts, student_progress, now, req, api, call, web>>

\* RecitationAttempt.create up to db.close(): INSERT, commit, lastrowid
create(h) ==
    /\ pc[h] = "create"
    /\ LET is_passing == req[h].score >= PassingScore
           attempt_id == Len(recitation_attempts) + 1
       IN /\ recitation_attempts' = Append(recitation_attempts,
                 [id |-> attempt_id,
                  student_id |-> req[h].user_id,
                  verse_id |-> req[h].verseId,
                  recitation |-> req[h].recitation,
                  score |-> req[h].score,
                  attempt_number |-> frame[h].attempt_number,
                  is_passing |-> is_passing,
                  created_at |-> now])
          /\ frame' = [frame EXCEPT ![h].attempt_id = attempt_id,
                                    ![h].is_passing = is_passing]
    /\ pc' = [pc EXCEPT ![h] = "select"]
    /\ UNCHANGED <<student_progress, now, req, api, call, web>>

\* update_progress: SELECT * FROM student_progress WHERE student_id, verse_id
\* fetchone(): the first matching row, or None
select_current(h) ==
    /\ pc[h] = "select"
    /\ LET rows == SelectRows(student_progress, req[h].user_id, req[h].verseId)
       IN frame' = [frame EXCEPT ![h].current =
                        IF Len(rows) = 0 THEN <<>> ELSE <<rows[1]>>]
    /\ pc' = [pc EXCEPT ![h] = "write"]
    /\ UNCHANGED <<recitation_attempts, student_progress, now, req, api, call, web>>

\* the new record taking its trend from the pass flag instead of 'stable'
NewProgress_TrendFromPass(student_id, verse_id, score, is_passing, t) ==
    [student_id |-> student_id, verse_id |-> verse_id,
     total_attempts |-> 1, best_score |-> score, latest_score |-> score,
     is_memorized |-> is_passing,
     first_memorized_at |-> IF is_passing THEN t ELSE NoTime,
     last_attempt_at |-> t,
     average_score |-> Rat(score, 1),
     improvement_trend |-> IF is_passing THEN "improving" ELSE "stable"]

\* the new record starting its count at 0
NewProgress_CountFromZero(student_id, verse_id, score, is_passing, t) ==
    [student_id |-> student_id, verse_id |-> verse_id,
     total_attempts |-> 0, best_score |-> score, latest_score |-> score,
     is_memorized |-> is_passing,
     first_memorized_at |-> IF is_passing THEN t ELSE NoTime,
     last_attempt_at |-> t,
     average_score |-> Rat(score, 1),
     improvement_trend |-> "stable"]

\* the new record filed under the other student
NewProgress_OtherStudent(student_id, verse_id, score, is_passing, t) ==
    [student_id |-> IF student_id = 1 THEN 2 ELSE 1, verse_id |-> verse_id,
     total_attempts |-> 1, best_score |-> score, latest_score |-> score,
     is_memorized |-> is_passing,
     first_memorized_at |-> IF is_passing THEN t ELSE NoTime,
     last_attempt_at |-> t,
     average_score |-> Rat(score, 1),
     improvement_trend |-> "stable"]

\* update_progress, "Create new progress record"
NewProgress(student_id, verse_id, score, is_passing, t) ==
    [student_id |-> student_id, verse_id |-> verse_id,
     total_attempts |-> 1, best_score |-> score, latest_score |-> score,
     is_memorized |-> is_passing,
     first_memorized_at |-> IF is_passing THEN t ELSE NoTime,
     last_attempt_at |-> t,
     average_score |-> Rat(score, 1),
     improvement_trend |-> "stable"]

\* update_progress, "Update existing record": the values of the UPDATE
UpdatedProgress(current, score, is_passing, t) ==
    LET new_total == current.total_attempts + 1
        new_best  == Max(current.best_score, score)
        new_avg   == Rat(current.average_score[1] * current.total_attempts
                             + score * current.average_score[2],
                         current.average_score[2] * new_total)
        first_memorized_at ==
            IF is_passing /\ ~current.is_memorized THEN t
            ELSE current.first_memorized_at
        trend == IF score > current.latest_score THEN "improving"
                 ELSE IF score < current.latest_score THEN "declining"
                 ELSE "stable"
    IN [current EXCEPT !.total_attempts = new_total,
                       !.best_score = new_best,
                       !.latest_score = score,
                       !.is_memorized = is_passing,
                       !.first_memorized_at = first_memorized_at,
                       !.last_attempt_at = t,
                       !.average_score = new_avg,
                       !.improvement_trend = trend]

\* UPDATE student_progress SET ... WHERE student_id = ? AND verse_id = ?
UpdateRows(table, student_id, verse_id, new) ==
    [i \in 1..Len(table) |->
        IF table[i].student_id = student_id /\ table[i].verse_id = verse_id
        THEN [new EXCEPT !.student_id = student_id, !.verse_id = verse_id]
        ELSE table[i]]

\* submit_recitation after RecitationAttempt.create has returned:
\* "if 'diff' in data and attempt_id" decides whether the errors are processed
AfterCreate(h) == IF req[h].diff /\ frame[h].attempt_id # 0 THEN "errors" ELSE "done"

\* update_progress from "if current:" to db.close()
update_progress(h) ==
    /\ pc[h] = "write"
    /\ LET student_id == req[h].user_id
           verse_id   == req[h].verseId
           score      == req[h].score
           is_passing == frame[h].is_passing
       IN IF frame[h].current # <<>>
          THEN IF row_factory = "Row"
               THEN /\ student_progress' =
                          UpdateRows(student_progress, student_id, verse_id,
                              UpdatedProgress(frame[h].current[1], score, is_passing, now))
                    /\ pc' = [pc EXCEPT ![h] = AfterCreate(h)]
                    /\ frame' = frame
               ELSE \* current['total_attempts'] on a tuple raises TypeError
                    /\ student_progress' = student_progress
                    /\ pc' = [pc EXCEPT ![h] = "failed"]
                    /\ frame' = [frame EXCEPT ![h].error = "TypeError"]
          ELSE IF UniqueStudentVerse(student_progress, student_id, verse_id)
               THEN /\ student_progress' = Append(student_progress,
                          NewProgress(student_id, verse_id, score, is_passing, now))
                    /\ pc' = [pc EXCEPT ![h] = AfterCreate(h)]
                    /\ frame' = frame
               ELSE \* the INSERT violates the constraint: IntegrityError
                    /\ student_progress' = student_progress
                    /\ pc' = [pc EXCEPT ![h] = "failed"]
                    /\ frame' = [frame EXCEPT ![h].error = "IntegrityError"]
    /\ now' = now + 1
    /\ UNCHANGED <<recitation_attempts, req, api, call, web>>

\* the response leaves the handler: 200 with attemptId, 400 for missing
\* fields, or 500 after an exception that nothing in submit_recitation catches
\* A session the handler has modified is sent back with the response and
\* replaces the cookie the client holds.
Respond(h) ==
    /\ pc[h] \in {"done", "failed", "rejected"}
    /\ pc' = [pc EXCEPT ![h] = "idle"]
    /\ IF req[h].client # 0 /\ req[h].modified
       THEN /\ session' = [session EXCEPT ![req[h].client] = req[h].anonymous_user_id]
            /\ current_user' = [current_user EXCEPT ![req[h].client] = req[h].current_user]
       ELSE UNCHANGED <<session, current_user>>
    /\ req' = [req EXCEPT ![h] = NoRequest]
    /\ frame' = [frame EXCEPT ![h] = NoFrame]
    /\ UNCHANGED <<recitation_attempts, student_progress, now, users,
                   recitation_errors, class_memberships, classes, call>>

Next ==
    \/ \E h \in Handlers, u \in Students, v \in VerseIds, s \in Scores :
          Receive(h, u, v, s)
    \/ \E h \in Handlers : CountAttempts(h)
    \/ \E h \in Handlers : create(h)
    \/ \E h \in Handlers : select_current(h)
    \/ \E h \in Handlers : update_progress(h)
    \/ \E h \in Handlers : Respond(h)

Spec == Init /\ [][Next]_vars

\* One submission at a time: a request is taken only when no other handler
\* is busy.
ReceiveSeq(h, user_id, verseId, score) ==
    /\ \A g \in Handlers : pc[g] = "idle"
    /\ Receive(h, user_id, verseId, score)

NextSeq ==
    \/ \E h \in Handlers, u \in Students, v \in VerseIds, s \in Scores :
          ReceiveSeq(h, u, v, s)
    \/ \E h \in Handlers : CountAttempts(h)
    \/ \E h \in Handlers : create(h)
    \/ \E h \in Handlers : select_current(h)
    \/ \E h \in Handlers : update_progress(h)
    \/ \E h \in Handlers : Respond(h)

SpecSeq == Init /\ [][NextSeq]_vars

\* ------------------------------------------------- texts and normalizing
\* A text is a sequence of one-character strings.
Whitespace == {" ", "\t"}

\* the characters of the class given to re.sub that are plain ASCII (the
\* class also lists the bytes of a mis-encoded curly quote and em-dash)
Punctuation == {".", ",", "/", "#", "!", "$", "%", "^", "&", "*", ";", ":",
                "{", "}", "=", "_", "`", "~", "(", ")", "\"", "'", "?"}

\* str.lower(), character by character
LowerChar(c) == IF c = "A" THEN "a" ELSE IF c = "B" THEN "b" ELSE c

lower(text) == [i \in 1..Len(text) |-> LowerChar(text[i])]

RECURSIVE lstrip(_)
lstrip(text) ==
    IF text # <<>> /\ text[1] \in Whitespace THEN lstrip(Tail(text)) ELSE text

RECURSIVE rstrip(_)
rstrip(text) ==
    IF text # <<>> /\ text[Len(text)] \in Whitespace
    THEN rstrip(SubSeq(text, 1, Len(text) - 1)) ELSE text

\* str.strip()
strip(text) == rstrip(lstrip(text))

\* re.sub with count = 1: only the first match is removed
RECURSIVE StripPunctuation_FirstOnly(_)
StripPunctuation_FirstOnly(text) ==
    IF text = <<>> THEN <<>>
    ELSE IF text[1] \in Punctuation THEN Tail(text)
    ELSE <<text[1]>> \o StripPunctuation_FirstOnly(Tail(text))

\* re.sub(r'[.,\/#!$%\^&\*;:{}=\_`~()"\'...?]', '', text)
StripPunctuation(text) == SelectSeq(text, LAMBDA c : c \notin Punctuation)

\* str.replace('-', ' ')
ReplaceHyphens(text) == [i \in 1..Len(text) |-> IF text[i] = "-" THEN " " ELSE text[i]]

\* str.replace('  ', ' '): one left-to-right pass over non-overlapping matches
RECURSIVE ReplaceDoubleSpaces(_)
ReplaceDoubleSpaces(text) ==
    IF Len(text) < 2 THEN text
    ELSE IF text[1] = " " /\ text[2] = " "
         THEN <<" ">> \o ReplaceDoubleSpaces(SubSeq(text, 3, Len(text)))
         ELSE <<text[1]>> \o ReplaceDoubleSpaces(Tail(text))

normalize_string(text) ==
    ReplaceDoubleSpaces(ReplaceHyphens(StripPunctuation(strip(lower(text)))))

\* str.split(): the maximal runs of non-whitespace characters
RECURSIVE SplitFrom(_, _)
SplitFrom(text, word) ==
    IF text = <<>> THEN (IF word = <<>> THEN <<>> ELSE <<word>>)
    ELSE IF text[1] \in Whitespace
         THEN (IF word = <<>> THEN <<>> ELSE <<word>>) \o SplitFrom(Tail(text), <<>>)
         ELSE SplitFrom(Tail(text), Append(word, text[1]))

split(text) == SplitFrom(text, <<>>)

\* the texts of at most n of these characters
Chars == {"a", "B", " ", "\t", ".", "-"}

TextsUpTo(n) == UNION {[1..k -> Chars] : k \in 0..n}

\* normalize_string applied to a text drawn from the bounded set, and then
\* applied to its own output
InitNormalize ==
    /\ InitDb
    /\ args \in {[text |-> t] : t \in TextsUpTo(MaxTextLen)}
    /\ result = <<>>

NormalizeText ==
    /\ result = <<>>
    /\ result' = <<normalize_string(args.text)>>
    /\ UNCHANGED <<recitation_attempts, student_progress, now, pc, req, frame, api, args, web>>

NormalizeAgain ==
    /\ Len(result) = 1
    /\ result' = Append(result, normalize_string(result[1]))
    /\ UNCHANGED <<recitation_attempts, student_progress, now, pc, req, frame, api, args, web>>

NextNormalize == NormalizeText \/ NormalizeAgain

SpecNormalize == InitNormalize /\ [][NextNormalize]_vars

\* ------------------------------------------------------------ alignment
\* A word is a text without whitespace; None takes the place of a word in
\* the columns expected_word and actual_word.
NoWord == <<>>

Min(a, b) == IF a <= b THEN a ELSE b

\* the Python slice s[a:b] with 0 <= a
Slice(s, a, b) == SubSeq(s, a + 1, Min(b, Len(s)))

\* ' '.join(words)
RECURSIVE join(_)
join(words) ==
    IF words = <<>> THEN <<>>
    ELSE IF Len(words) = 1 THEN words[1]
    ELSE words[1] \o <<" ">> \o join(Tail(words))

\* the test written as "user_words[i] not in correct_words"
IsError_NotInReference(user_words, correct_words, i) ==
    \/ i >= Len(user_words)
    \/ \A k \in 1..Len(correct_words) : user_words[i + 1] # correct_words[k]

\* "if i >= len(user_words) or user_words[i] != correct_word"
IsError(user_words, correct_words, i) ==
    \/ i >= Len(user_words)
    \/ user_words[i + 1] # correct_words[i + 1]

\* the row storing the position counted from one
ErrorRow_OneBased(user_words, correct_words, i) ==
    [error_type |-> IF i >= Len(user_words) THEN "missing_word" ELSE "wrong_word",
     position |-> i + 1,
     expected_word |-> correct_words[i + 1],
     actual_word |-> IF i >= Len(user_words) THEN NoWord ELSE user_words[i + 1],
     context_before |-> join(Slice(correct_words, Max(0, i - 3), i)),
     context_after |-> join(Slice(correct_words, i + 1, Min(Len(correct_words), i + 4)))]

\* the row inserted for index i of the loop "Find missing words"
ErrorRow(user_words, correct_words, i) ==
    [error_type |-> IF i >= Len(user_words) THEN "missing_word" ELSE "wrong_word",
     position |-> i,
     expected_word |-> correct_words[i + 1],
     actual_word |-> IF i >= Len(user_words) THEN NoWord ELSE user_words[i + 1],
     context_before |-> join(Slice(correct_words, Max(0, i - 3), i)),
     context_after |-> join(Slice(correct_words, i + 1, Min(Len(correct_words), i + 4)))]

\* for i, correct_word in enumerate(correct_words): rows of indices i..N-1
RECURSIVE MissingAndWrong(_, _, _)
MissingAndWrong(user_words, correct_words, i) ==
    IF i >= Len(correct_words) THEN <<>>
    ELSE (IF IsError(user_words, correct_words, i)
          THEN <<ErrorRow(user_words, correct_words, i)>> ELSE <<>>)
         \o MissingAndWrong(user_words, correct_words, i + 1)

\* the before-context taking every reference token
ExtraRow_WholeReference(user_words, correct_words, i) ==
    [error_type |-> "extra_word",
     position |-> i,
     expected_word |-> NoWord,
     actual_word |-> user_words[i + 1],
     context_before |-> join(correct_words),
     context_after |-> <<>>]

\* the row inserted for index i of the loop "Find extra words"
ExtraRow(user_words, correct_words, i) ==
    [error_type |-> "extra_word",
     position |-> i,
     expected_word |-> NoWord,
     actual_word |-> user_words[i + 1],
     context_before |-> join(Slice(correct_words, Max(0, Len(correct_words) - 3),
                                   Len(correct_words))),
     context_after |-> <<>>]

\* the loop starting one index late
ExtraWords_SkipsFirst(user_words, correct_words) ==
    IF Len(user_words) > Len(correct_words)
    THEN [k \in 1..(Len(user_words) - Len(correct_words) - 1) |->
             ExtraRow(user_words, correct_words, Len(correct_words) + k)]
    ELSE <<>>

\* the loop starting one index early, also for equal lengths
ExtraWords_StartsEarly(user_words, correct_words) ==
    IF Len(user_words) >= Len(correct_words) /\ Len(correct_words) > 0
    THEN [k \in 1..(Len(user_words) - Len(correct_words) + 1) |->
             ExtraRow(user_words, correct_words, Len(correct_words) + k - 2)]
    ELSE <<>>

\* for i in range(len(correct_words), len(user_words))
ExtraWords(user_words, correct_words) ==
    IF Len(user_words) > Len(correct_words)
    THEN [k \in 1..(Len(user_words) - Len(correct_words)) |->
             ExtraRow(user_words, correct_words, Len(correct_words) + k - 1)]
    ELSE <<>>

\* the rows process_recitation_errors inserts, in order, without attempt_id
error_rows(user_words, correct_words) ==
    MissingAndWrong(user_words, correct_words, 0) \o ExtraWords(user_words, correct_words)

Words == {<<"a">>, <<"b">>}

WordsUpTo(n) == UNION {[1..k -> Words] : k \in 0..n}

\* the two loops applied to token sequences drawn from the bounded set
InitAlign ==
    /\ InitDb
    /\ args \in {[user_words |-> u, correct_words |-> c] :
                    u \in WordsUpTo(MaxWords), c \in WordsUpTo(MaxWords)}
    /\ result = <<>>

Align ==
    /\ result = <<>>
    /\ result' = <<error_rows(args.user_words, args.correct_words)>>
    /\ UNCHANGED <<recitation_attempts, student_progress, now, pc, req, frame, api, args, web>>

NextAlign == Align

SpecAlign == InitAlign /\ [][NextAlign]_vars

\* ------------------------------------------ the whole of submit_recitation
\* Submissions of anonymous clients with every kind of body, handled one at a
\* time.
SubmitFieldSets == {RequiredFields \ {f} : f \in RequiredFields}
SubmitVerseIds  == {1, NumVerses + 1}   \* the second is the id of no verse
SubmitScores    == {-1, 90, 101}
SubmitTexts     == {<<"a">>}        \* data['recitation']
SubmitAnswers   == {<<>>, <<"b">>}  \* data.get('correctAnswer', '')

\* the test written with any() instead of all()
HasRequiredFields_Any(fields) == \E field \in RequiredFields : field \in fields

\* "all(field in data for field in required_fields)"
HasRequiredFields(fields) == \A field \in RequiredFields : field \in fields

\* the request a client sends: its cookie goes with it
RequestOf(c) == [NoRequest EXCEPT !.client = c,
                                  !.anonymous_user_id = session[c],
                                  !.current_user = current_user[c]]

\* requests are handled one at a time, by the first handler
OneAtATime(h) == \A g \in Handlers : pc[g] = "idle" /\ h <= g

\* POST /api/recitations from client c, up to the validation of the body
submit_recitation(h, c, fields, verseId, score, recitation, diff, correctAnswer) ==
    /\ pc[h] = "idle"
    /\ Len(recitation_attempts) + Cardinality(InFlight) < MaxAttempts
    /\ req' = [req EXCEPT ![h] = [RequestOf(c) EXCEPT !.fields = fields,
                                                      !.verseId = verseId,
                                                      !.score = score,
                                                      !.recitation = recitation,
                                                      !.diff = diff,
                                                      !.correctAnswer = correctAnswer]]
    /\ frame' = [frame EXCEPT ![h] = NoFrame]
    /\ pc' = [pc EXCEPT ![h] = IF HasRequiredFields(fields) THEN "user" ELSE "rejected"]
    /\ UNCHANGED <<recitation_attempts, student_progress, now, api, call, web>>

\* the users row of a guest: its password_hash is the word 'anonymous', which
\* no password matches
AnonymousUser(id) == [id |-> id, role |-> "student", password_hash |-> "anonymous"]

\* "If user is logged in, use their info"; else "if 'anonymous_user_id' not in
\* session": INSERT INTO users, commit, session['anonymous_user_id'] =
\* lastrowid; user_id = session['anonymous_user_id']
anonymous_user(h) ==
    /\ pc[h] = "user"
    /\ IF req[h].current_user # 0
       THEN /\ req' = [req EXCEPT ![h].user_id = req[h].current_user]
            /\ users' = users
       ELSE IF req[h].anonymous_user_id = 0
       THEN /\ users' = Append(users, AnonymousUser(Len(users) + 1))
            /\ req' = [req EXCEPT ![h].anonymous_user_id = Len(users) + 1,
                                  ![h].modified = TRUE,
                                  ![h].user_id = Len(users) + 1]
       ELSE /\ req' = [req EXCEPT ![h].user_id = req[h].anonymous_user_id]
            /\ users' = users
    /\ pc' = [pc EXCEPT ![h] = "count"]
    /\ UNCHANGED <<recitation_attempts, student_progress, now, frame,
                   session, recitation_errors, call, web>>

\* process_recitation_errors(attempt_id, data['recitation'], correctAnswer)
process_recitation_errors(h) ==
    /\ pc[h] = "errors"
    /\ LET attempt_id   == frame[h].attempt_id
           user_text    == req[h].recitation
           correct_text == req[h].correctAnswer
           user_words    == split(normalize_string(user_text))
           correct_words == split(normalize_string(correct_text))
           rows == error_rows(user_words, correct_words)
       IN IF correct_text = <<>>
          THEN recitation_errors' = recitation_errors
          ELSE recitation_errors' = recitation_errors \o
                  [k \in 1..Len(rows) |->
                      [attempt_id |-> attempt_id,
                       error_type |-> rows[k].error_type,
                       position |-> rows[k].position,
                       expected_word |-> rows[k].expected_word,
                       actual_word |-> rows[k].actual_word,
                       context_before |-> rows[k].context_before,
                       context_after |-> rows[k].context_after]]
    /\ pc' = [pc EXCEPT ![h] = "done"]
    /\ UNCHANGED <<recitation_attempts, student_progress, now, req, frame,
                   users, session, call, web>>

NextSubmit ==
    \/ \E h \in Handlers, c \in Clients, v \in SubmitVerseIds, s \in SubmitScores,
          t \in SubmitTexts, diff \in BOOLEAN, a \in SubmitAnswers :
          OneAtATime(h) /\ submit_recitation(h, c, RequiredFields, v, s, t, diff, a)
    \/ \E h \in Handlers, c \in Clients, fields \in SubmitFieldSets :
          OneAtATime(h) /\ submit_recitation(h, c, fields, 1, 90, <<"a">>, FALSE, <<>>)
    \/ \E h \in Handlers : anonymous_user(h)
    \/ \E h \in Handlers : CountAttempts(h)
    \/ \E h \in Handlers : create(h)
    \/ \E h \in Handlers : select_current(h)
    \/ \E h \in Handlers : update_progress(h)
    \/ \E h \in Handlers : process_recitation_errors(h)
    \/ \E h \in Handlers : Respond(h)

SpecSubmit == Init /\ [][NextSubmit]_vars

\* ------------------------------------------------------- get_my_progress
\* StudentProgress.get_student_progress(student_id): JOIN verses
get_student_progress(student_id) ==
    SelectSeq(student_progress,
              LAMBDA r : r.student_id = student_id /\ r.verse_id \in verses)

RECURSIVE SumField(_, _)
\* sum(p[field] for p in progress)
SumField(progress, field) ==
    IF progress = <<>> THEN 0
    ELSE progress[1][field] + SumField(Tail(progress), field)

\* n/d cut to one decimal instead of rounded
round1_Floor(n, d) == Rat((10 * n) \div d, 10)

\* round(n / d, 1): the nearest multiple of 0.1, a tie going to the even one
round1(n, d) ==
    LET q == (10 * n) \div d
        r == (10 * n) % d
    IN Rat(IF 2 * r > d \/ (2 * r = d /\ q % 2 = 1) THEN q + 1 ELSE q, 10)

\* "Calculate summary statistics"
summary(progress) ==
    IF progress # <<>>
    THEN LET total_verses    == Len(progress)
             memorized_count == Len(SelectSeq(progress, LAMBDA p : p.is_memorized))
         IN [total_verses_attempted |-> total_verses,
             verses_memorized |-> memorized_count,
             average_best_score |-> round1(SumField(progress, "best_score"), total_verses),
             total_attempts |-> SumField(progress, "total_attempts"),
             completion_rate |-> round1(memorized_count * 100, total_verses)]
    ELSE [total_verses_attempted |-> 0,
          verses_memorized |-> 0,
          average_best_score |-> Rat(0, 1),
          total_attempts |-> 0,
          completion_rate |-> Rat(0, 1)]

\* the pairs that may have been attempted once: student 1 with every verse id
\* a submission can name, student 2 with verse 1
SummaryPairs == [k \in 1..(NumVerses + 2) |->
                    IF k <= NumVerses + 1 THEN <<1, k>> ELSE <<2, 1>>]

\* the tables after one attempt, with score f[k], of each pair k of DOMAIN f
FirstAttempts(f) ==
    LET ks == SelectSeq([k \in 1..Len(SummaryPairs) |-> k], LAMBDA k : k \in DOMAIN f)
    IN [i \in 1..Len(ks) |->
           [id |-> i, student_id |-> SummaryPairs[ks[i]][1],
            verse_id |-> SummaryPairs[ks[i]][2], recitation |-> <<"a">>,
            score |-> f[ks[i]], attempt_number |-> 1,
            is_passing |-> f[ks[i]] >= PassingScore, created_at |-> i]]

FirstProgress(attempts) ==
    [i \in 1..Len(attempts) |->
        NewProgress(attempts[i].student_id, attempts[i].verse_id,
                    attempts[i].score, attempts[i].is_passing,
                    attempts[i].created_at)]

\* user_id 0: neither logged in nor 'anonymous_user_id' in session
InitSummary ==
    /\ \E S \in SUBSET (1..Len(SummaryPairs)) : \E f \in [S -> Scores] :
          /\ recitation_attempts = FirstAttempts(f)
          /\ student_progress = FirstProgress(FirstAttempts(f))
          /\ now = Len(FirstAttempts(f)) + 1
    /\ pc = [h \in Handlers |-> "idle"]
    /\ req = [h \in Handlers |-> NoRequest]
    /\ frame = [h \in Handlers |-> NoFrame]
    /\ users = <<>>
    /\ session = [c \in Clients |-> 0]
    /\ recitation_errors = <<>>
    /\ current_user = [c \in Clients |-> 0]
    /\ class_memberships = <<>>
    /\ classes = <<>>
    /\ args \in {[user_id |-> u] : u \in {0} \cup Students}
    /\ result = <<>>

\* GET /api/progress/my-progress
get_my_progress ==
    /\ result = <<>>
    /\ result' = IF args.user_id = 0
                 THEN <<[progress |-> <<>>, summary |-> <<>>]>>
                 ELSE LET progress == get_student_progress(args.user_id)
                      IN <<[progress |-> progress, summary |-> summary(progress)]>>
    /\ UNCHANGED <<recitation_attempts, student_progress, now, pc, req, frame,
                   api, args, web>>

NextSummary == get_my_progress

SpecSummary == InitSummary /\ [][NextSummary]_vars

\* ----------------------------------------------- sessions and accounts
\* Requests of the clients handled concurrently, each with the cookie its
\* client held when it was sent.

\* the users row User.create inserts
RegisteredUser(id, role) == [id |-> id, role |-> role, password_hash |-> "hash"]

\* POST /auth/anonymous-session
create_anonymous_session(h, c) ==
    /\ pc[h] = "idle"
    /\ Len(users) < MaxUsers
    /\ IF session[c] = 0
       THEN /\ users' = Append(users, AnonymousUser(Len(users) + 1))
            /\ req' = [req EXCEPT ![h] = [RequestOf(c) EXCEPT
                                             !.anonymous_user_id = Len(users) + 1,
                                             !.modified = TRUE]]
       ELSE /\ users' = users
            /\ req' = [req EXCEPT ![h] = RequestOf(c)]
    /\ frame' = [frame EXCEPT ![h] = [NoFrame EXCEPT !.status = 200,
                                         !.body = <<req'[h].anonymous_user_id>>]]
    /\ pc' = [pc EXCEPT ![h] = "done"]
    /\ UNCHANGED <<recitation_attempts, student_progress, now, session,
                   recitation_errors, call, web>>

\* GET /api/progress/my-progress from client c
my_progress(h, c) ==
    /\ pc[h] = "idle"
    /\ LET user_id == IF current_user[c] # 0 THEN current_user[c] ELSE session[c]
           progress == get_student_progress(user_id)
       IN /\ req' = [req EXCEPT ![h] = [RequestOf(c) EXCEPT !.user_id = user_id]]
          /\ frame' = [frame EXCEPT ![h] =
                [NoFrame EXCEPT !.status = 200,
                                !.body = IF user_id = 0 THEN <<>>
                                         ELSE <<progress, summary(progress)>>]]
    /\ pc' = [pc EXCEPT ![h] = "done"]
    /\ UNCHANGED <<recitation_attempts, student_progress, now, api, call, web>>

\* POST /auth/login from client c with the email of user u (0: of nobody) and
\* a password that is or is not the one u registered with
login(h, c, u, password) ==
    /\ pc[h] = "idle"
    /\ IF u # 0 /\ password /\ users[u].password_hash = "hash"
       THEN /\ req' = [req EXCEPT ![h] = [RequestOf(c) EXCEPT
                                             !.current_user = u,
                                             !.anonymous_user_id = 0,
                                             !.modified = TRUE]]
            /\ frame' = [frame EXCEPT ![h] = [NoFrame EXCEPT !.status = 200]]
       ELSE /\ req' = [req EXCEPT ![h] = RequestOf(c)]
            /\ frame' = [frame EXCEPT ![h] = [NoFrame EXCEPT !.status = 401]]
    /\ pc' = [pc EXCEPT ![h] = "done"]
    /\ UNCHANGED <<recitation_attempts, student_progress, now, api, call, web>>

\* POST /auth/register from client c with a new email: User.create, login_user
register(h, c, role) ==
    /\ pc[h] = "idle"
    /\ Len(users) < MaxUsers
    /\ users' = Append(users, RegisteredUser(Len(users) + 1, role))
    /\ req' = [req EXCEPT ![h] = [RequestOf(c) EXCEPT !.current_user = Len(users) + 1,
                                                      !.modified = TRUE]]
    /\ frame' = [frame EXCEPT ![h] = [NoFrame EXCEPT !.status = 201]]
    /\ pc' = [pc EXCEPT ![h] = "done"]
    /\ UNCHANGED <<recitation_attempts, student_progress, now, session,
                   recitation_errors, call, web>>

\* /auth/logout from client c: login_required, logout_user, session.clear()
logout(h, c) ==
    /\ pc[h] = "idle"
    /\ IF current_user[c] # 0
       THEN /\ req' = [req EXCEPT ![h] = [RequestOf(c) EXCEPT
                                             !.current_user = 0,
                                             !.anonymous_user_id = 0,
                                             !.modified = TRUE]]
            /\ frame' = [frame EXCEPT ![h] = [NoFrame EXCEPT !.status = 200]]
       ELSE /\ req' = [req EXCEPT ![h] = RequestOf(c)]
            /\ frame' = [frame EXCEPT ![h] = [NoFrame EXCEPT !.status = 401]]
    /\ pc' = [pc EXCEPT ![h] = "done"]
    /\ UNCHANGED <<recitation_attempts, student_progress, now, api, call, web>>

NextSession ==
    \/ \E h \in Handlers, c \in Clients :
          submit_recitation(h, c, RequiredFields, 1, 90, <<"a">>, FALSE, <<>>)
    \/ \E h \in Handlers : anonymous_user(h)
    \/ \E h \in Handlers : CountAttempts(h)
    \/ \E h \in Handlers : create(h)
    \/ \E h \in Handlers : select_current(h)
    \/ \E h \in Handlers : update_progress(h)
    \/ \E h \in Handlers, c \in Clients : create_anonymous_session(h, c)
    \/ \E h \in Handlers, c \in Clients : my_progress(h, c)
    \/ \E h \in Handlers, c \in Clients, u \in 0..Len(users), password \in BOOLEAN :
          login(h, c, u, password)
    \/ \E h \in Handlers, c \in Clients : register(h, c, "student")
    \/ \E h \in Handlers, c \in Clients : logout(h, c)
    \/ \E h \in Handlers : Respond(h)

SpecSession == Init /\ [][NextSession]_vars

\* ------------------------------------------- reading a student's data
\* User.is_teacher with the role test left out
is_teacher_Anyone(role) == TRUE

\* User.is_teacher
is_teacher(role) == role \in {"teacher", "admin"}

\* "if not (current_user.is_teacher() or current_user.id == student_id)"
Authorized(user_id, student_id) ==
    is_teacher(users[user_id].role) \/ user_id = student_id

\* FROM recitation_errors re JOIN recitation_attempts ra ON re.attempt_id =
\* ra.id with every student's rows
student_errors_Everyone(student_id) ==
    SelectSeq(recitation_errors,
        LAMBDA re : \E k \in 1..Len(recitation_attempts) :
                        recitation_attempts[k].id = re.attempt_id)

\* FROM recitation_errors re JOIN recitation_attempts ra ON re.attempt_id =
\* ra.id WHERE ra.student_id = ?
student_errors(student_id) ==
    SelectSeq(recitation_errors,
        LAMBDA re : \E k \in 1..Len(recitation_attempts) :
                        /\ recitation_attempts[k].id = re.attempt_id
                        /\ recitation_attempts[k].student_id = student_id)

\* SELECT error_type, COUNT(*), GROUP_CONCAT(DISTINCT expected_word) ...
\* GROUP BY error_type: one row per kind that occurs (their order, by count,
\* is left out)
error_patterns(student_id) ==
    LET rows == student_errors(student_id)
    IN {[error_type |-> kind,
         count |-> Len(SelectSeq(rows, LAMBDA re : re.error_type = kind)),
         common_words |-> {rows[k].expected_word : k \in
                              {j \in 1..Len(rows) : /\ rows[j].error_type = kind
                                                     /\ rows[j].expected_word # NoWord}}] :
          kind \in {rows[k].error_type : k \in 1..Len(rows)}}

\* SELECT expected_word, COUNT(*), AVG(CASE WHEN actual_word IS NOT NULL ...)
\* ... WHERE expected_word IS NOT NULL GROUP BY expected_word
\* HAVING error_count > 1 (LIMIT 20 is never reached here)
problem_words(student_id) ==
    LET rows == SelectSeq(student_errors(student_id),
                          LAMBDA re : re.expected_word # NoWord)
        words == {rows[k].expected_word : k \in 1..Len(rows)}
    IN {[expected_word |-> w,
         error_count |-> Len(SelectSeq(rows, LAMBDA re : re.expected_word = w)),
         substitution_rate |->
             Rat(Len(SelectSeq(rows, LAMBDA re : re.expected_word = w /\ re.actual_word # NoWord)),
                 Len(SelectSeq(rows, LAMBDA re : re.expected_word = w)))] :
          w \in {x \in words : Len(SelectSeq(rows, LAMBDA re : re.expected_word = x)) > 1}}

\* what login_required and the authorization test let through: 302 is the
\* redirect to the login page, 403 is {'error': 'Unauthorized'}
StatusOf(c, student_id) ==
    IF current_user[c] = 0 THEN 302
    ELSE IF Authorized(current_user[c], student_id) THEN 200 ELSE 403

\* GET /api/progress/student/<student_id> from client c
api_get_student_progress(h, c, student_id) ==
    /\ pc[h] = "idle"
    /\ req' = [req EXCEPT ![h] = [RequestOf(c) EXCEPT !.route = "progress",
                                                      !.student_id = student_id]]
    /\ frame' = [frame EXCEPT ![h] =
          [NoFrame EXCEPT !.status = StatusOf(c, student_id),
                          !.body = IF StatusOf(c, student_id) = 200
                                   THEN <<get_student_progress(student_id)>> ELSE <<>>]]
    /\ pc' = [pc EXCEPT ![h] = "done"]
    /\ UNCHANGED <<recitation_attempts, student_progress, now, api, call, web>>

\* GET /api/analysis/errors/<student_id> from client c
get_error_analysis(h, c, student_id) ==
    /\ pc[h] = "idle"
    /\ req' = [req EXCEPT ![h] = [RequestOf(c) EXCEPT !.route = "errors",
                                                      !.student_id = student_id]]
    /\ frame' = [frame EXCEPT ![h] =
          [NoFrame EXCEPT !.status = StatusOf(c, student_id),
                          !.body = IF StatusOf(c, student_id) = 200
                                   THEN <<[error_patterns |-> error_patterns(student_id),
                                           problem_words |-> problem_words(student_id)]>>
                                   ELSE <<>>]]
    /\ pc' = [pc EXCEPT ![h] = "done"]
    /\ UNCHANGED <<recitation_attempts, student_progress, now, api, call, web>>

\* the users a request can name: those there are and one there is not
UserIds == 1..(Len(users) + 1)

\* Requests of one client handled one at a time: accounts, submissions that
\* carry a reference text, and the two reads.
NextAccess ==
    \/ \E h \in Handlers, v \in {1, 2} :
          OneAtATime(h) /\ submit_recitation(h, 1, RequiredFields, v, 90, <<"a">>,
                                             TRUE, <<"b", " ", "c">>)
    \/ \E h \in Handlers : anonymous_user(h)
    \/ \E h \in Handlers : CountAttempts(h)
    \/ \E h \in Handlers : create(h)
    \/ \E h \in Handlers : select_current(h)
    \/ \E h \in Handlers : update_progress(h)
    \/ \E h \in Handlers : process_recitation_errors(h)
    \/ \E h \in Handlers, role \in {"student", "teacher"} :
          OneAtATime(h) /\ register(h, 1, role)
    \/ \E h \in Handlers, u \in 0..Len(users) :
          OneAtATime(h) /\ login(h, 1, u, TRUE)
    \/ \E h \in Handlers : OneAtATime(h) /\ logout(h, 1)
    \/ \E h \in Handlers, student_id \in UserIds :
          OneAtATime(h) /\ api_get_student_progress(h, 1, student_id)
    \/ \E h \in Handlers, student_id \in UserIds :
          OneAtATime(h) /\ get_error_analysis(h, 1, student_id)
    \/ \E h \in Handlers : Respond(h)

SpecAccess == Init /\ [][NextAccess]_vars

\* ------------------------------------------------- classes and members
\* the test for a member that never finds one
ActiveMember_Never(class_id, student_id) == FALSE

\* SELECT * FROM class_memberships WHERE class_id = ? AND student_id = ? AND
\* is_active = 1: is there such a row?
ActiveMember(class_id, student_id) ==
    \E k \in 1..Len(class_memberships) :
        /\ class_memberships[k].class_id = class_id
        /\ class_memberships[k].student_id = student_id
        /\ class_memberships[k].is_active

\* login_required, require_teacher and "Verify teacher owns this class":
\* 302 is the redirect to the login page, 0 lets the request through
ClassGate(c, class_id) ==
    IF current_user[c] = 0 THEN 302
    ELSE IF ~is_teacher(users[current_user[c]].role) THEN 403
    ELSE IF \E k \in 1..Len(classes) : /\ classes[k].id = class_id
                                       /\ classes[k].teacher_id = current_user[c]
         THEN 0 ELSE 404

\* SELECT * FROM users WHERE id = ? AND role = "student" AND is_active = 1
IsStudent(student_id) ==
    student_id \in 1..Len(users) /\ users[student_id].role = "student"

\* POST /admin/classes from client c: a new class of the teacher logged in
\* (one class is made)
manage_classes(h, c) ==
    /\ pc[h] = "idle"
    /\ classes = <<>>
    /\ req' = [req EXCEPT ![h] = [RequestOf(c) EXCEPT !.route = "classes"]]
    /\ IF current_user[c] # 0 /\ is_teacher(users[current_user[c]].role)
       THEN /\ classes' = Append(classes, [id |-> Len(classes) + 1,
                                           teacher_id |-> current_user[c]])
            /\ frame' = [frame EXCEPT ![h] = [NoFrame EXCEPT !.status = 201]]
       ELSE /\ classes' = classes
            /\ frame' = [frame EXCEPT ![h] =
                  [NoFrame EXCEPT !.status = IF current_user[c] = 0 THEN 302 ELSE 403]]
    /\ pc' = [pc EXCEPT ![h] = "done"]
    /\ UNCHANGED <<recitation_attempts, student_progress, now, api, call,
                   current_user, class_memberships>>

\* POST /admin/classes/<class_id>/students from client c, up to the INSERT;
\* student_id 0 stands for a body without student_id
add_student(h, c, class_id, student_id) ==
    /\ pc[h] = "idle"
    /\ req' = [req EXCEPT ![h] = [RequestOf(c) EXCEPT !.route = "add",
                                                      !.class_id = class_id,
                                                      !.student_id = student_id]]
    /\ LET status == IF ClassGate(c, class_id) # 0 THEN ClassGate(c, class_id)
                     ELSE IF student_id = 0 THEN 400
                     ELSE IF ~IsStudent(student_id) THEN 404
                     ELSE IF ActiveMember(class_id, student_id) THEN 409
                     ELSE 0
       IN /\ status = 0 => Len(class_memberships) < MaxMemberships
          /\ frame' = [frame EXCEPT ![h] = [NoFrame EXCEPT !.status = status]]
          /\ pc' = [pc EXCEPT ![h] = IF status = 0 THEN "insert" ELSE "done"]
    /\ UNCHANGED <<recitation_attempts, student_progress, now, api, call, web>>

\* INSERT INTO class_memberships (class_id, student_id), commit. The schema is
\* not part of the sources: when the table already holds a row of the pair,
\* the INSERT is either accepted or refused with an IntegrityError.
insert_membership(h) ==
    /\ pc[h] = "insert"
    /\ \/ /\ class_memberships' = Append(class_memberships,
                 [class_id |-> req[h].class_id, student_id |-> req[h].student_id,
                  is_active |-> TRUE])
          /\ frame' = [frame EXCEPT ![h].status = 200]
          /\ pc' = [pc EXCEPT ![h] = "done"]
       \/ /\ \E k \in 1..Len(class_memberships) :
                /\ class_memberships[k].class_id = req[h].class_id
                /\ class_memberships[k].student_id = req[h].student_id
          /\ class_memberships' = class_memberships
          /\ frame' = [frame EXCEPT ![h].status = 500, ![h].error = "IntegrityError"]
          /\ pc' = [pc EXCEPT ![h] = "failed"]
    /\ UNCHANGED <<recitation_attempts, student_progress, now, req, api, call,
                   current_user, classes>>

\* DELETE /admin/classes/<class_id>/students from client c: UPDATE
\* class_memberships SET is_active = 0 WHERE class_id = ? AND student_id = ?
remove_student(h, c, class_id, student_id) ==
    /\ pc[h] = "idle"
    /\ req' = [req EXCEPT ![h] = [RequestOf(c) EXCEPT !.route = "remove",
                                                      !.class_id = class_id,
                                                      !.student_id = student_id]]
    /\ LET status == IF ClassGate(c, class_id) # 0 THEN ClassGate(c, class_id)
                     ELSE IF student_id = 0 THEN 400 ELSE 200
       IN /\ frame' = [frame EXCEPT ![h] = [NoFrame EXCEPT !.status = status]]
          /\ class_memberships' =
                IF status = 200
                THEN [k \in 1..Len(class_memberships) |->
                         IF /\ class_memberships[k].class_id = class_id
                            /\ class_memberships[k].student_id = student_id
                         THEN [class_memberships[k] EXCEPT !.is_active = FALSE]
                         ELSE class_memberships[k]]
                ELSE class_memberships
    /\ pc' = [pc EXCEPT ![h] = "done"]
    /\ UNCHANGED <<recitation_attempts, student_progress, now, api, call,
                   current_user, classes>>

\* the classes a request can name: those there are and one there is not
ClassIds == 1..(Len(classes) + 1)

\* Requests handled one at a time: a teacher on client 1 and students
\* registering on client 2.
NextClass ==
    \/ \E h \in Handlers, c \in Clients :
          OneAtATime(h) /\ register(h, c, IF c = 1 THEN "teacher" ELSE "student")
    \/ \E h \in Handlers, c \in Clients : OneAtATime(h) /\ logout(h, c)
    \/ \E h \in Handlers, c \in Clients : OneAtATime(h) /\ manage_classes(h, c)
    \/ \E h \in Handlers, c \in Clients, class_id \in ClassIds, student_id \in 0..Len(users) :
          OneAtATime(h) /\ add_student(h, c, class_id, student_id)
    \/ \E h \in Handlers : insert_membership(h)
    \/ \E h \in Handlers, c \in Clients, class_id \in ClassIds, student_id \in 0..Len(users) :
          OneAtATime(h) /\ remove_student(h, c, class_id, student_id)
    \/ \E h \in Handlers : Respond(h)

SpecClass == Init /\ [][NextClass]_vars

\* ------------------------------------------------------------ properties
Pairs == Students \X VerseIds

Attempts(pair) == SelectRows(recitation_attempts, pair[1], pair[2])
Progress(pair) == SelectRows(student_progress, pair[1], pair[2])

\* every submitAttempt call has returned
Quiet == \A h \in Handlers : pc[h] = "idle"

RECURSIVE SumScores(_)
SumScores(rows) ==
    IF rows = <<>> THEN 0 ELSE rows[1].score + SumScores(Tail(rows))

RECURSIVE MaxScore(_)
MaxScore(rows) ==
    IF Len(rows) = 1 THEN rows[1].score
    ELSE Max(rows[1].score, MaxScore(Tail(rows)))

\* the summary of a pair agrees with the pair's Attempt rows
CountMatches(pair) ==
    IF Attempts(pair) = <<>> THEN Progress(pair) = <<>>
    ELSE /\ Len(Progress(pair)) = 1
         /\ Progress(pair)[1].total_attempts = Len(Attempts(pair))

BestMatches(pair) ==
    Attempts(pair) # <<>> =>
        /\ Len(Progress(pair)) = 1
        /\ Progress(pair)[1].best_score = MaxScore(Attempts(pair))

MeanMatches(pair) ==
    Attempts(pair) # <<>> =>
        /\ Len(Progress(pair)) = 1
        /\ Progress(pair)[1].average_score =
               Rat(SumScores(Attempts(pair)), Len(Attempts(pair)))

\* C1: with submissions handled one at a time, once every call has returned
\* first_memorized_at of a pair is absent when no attempt of the pair passed,
\* and otherwise is the timestamp of the pair's first passing attempt, whatever
\* the later attempts were.
C1_FirstMemorizedSetByFirstPass ==
    Quiet => \A pair \in Pairs :
        LET a == Attempts(pair)
            p == Progress(pair)
            passing == {i \in 1..Len(a) : a[i].is_passing}
        IN a # <<>> =>
             /\ Len(p) = 1
             /\ IF passing = {} THEN p[1].first_memorized_at = NoTime
                ELSE LET k == CHOOSE i \in passing : \A j \in passing : i <= j
                     IN p[1].first_memorized_at = a[k].created_at

\* C2: with submissions handled one at a time, once every call has returned
\* total_attempts of each pair equals the number of its Attempt rows.
C2_TotalAttemptsIsRowCount ==
    Quiet => \A pair \in Pairs : CountMatches(pair)

\* C3: with submissions handled one at a time, once every call has returned
\* best_score of each pair is the maximum score among its Attempt rows.
C3_BestScoreIsMaximum ==
    Quiet => \A pair \in Pairs : BestMatches(pair)

\* two calls for the same pair whose handling overlapped: each counted the
\* pair's attempts before the other inserted its row
Overlapped(h1, h2) ==
    /\ h1 # h2
    /\ pc[h1] \in {"done", "failed"} /\ pc[h2] \in {"done", "failed"}
    /\ req[h1].user_id = req[h2].user_id /\ req[h1].verseId = req[h2].verseId
    /\ frame[h1].attempt_number = frame[h2].attempt_number

\* C4: when concurrent calls for one pair have all completed, the pair's
\* summary counts every Attempt row and holds their maximum and their mean.
C4_ConcurrentUpdatesSerialized ==
    \A h1, h2 \in Handlers :
        (Overlapped(h1, h2) /\ \A g \in Handlers : pc[g] \in {"idle", "done", "failed"}) =>
            LET pair == <<req[h1].user_id, req[h1].verseId>>
            IN CountMatches(pair) /\ BestMatches(pair) /\ MeanMatches(pair)

\* C5: in every reachable state each Attempt row is accounted for in the
\* summary of its pair (the Attempt and the summary change together).
C5_AttemptRecordedAtomically ==
    \A pair \in Pairs :
        Len(Attempts(pair)) =
            (IF Progress(pair) = <<>> THEN 0 ELSE Progress(pair)[1].total_attempts)

C7_FirstAttemptCreatesSummary ==
    [][\A h \in Handlers :
          (pc[h] = "write" /\ pc'[h] = "done" /\ frame[h].current = <<>>) =>
              LET p == SelectRows(student_progress', req[h].user_id, req[h].verseId)
                  s == req[h].score
              IN /\ Len(p) = 1
                 /\ p[1].total_attempts = 1
                 /\ p[1].best_score = s /\ p[1].latest_score = s
                 /\ p[1].average_score = <<s, 1>>
                 /\ p[1].is_memorized = frame[h].is_passing
                 /\ (p[1].first_memorized_at # NoTime) = frame[h].is_passing
                 /\ frame[h].is_passing => p[1].first_memorized_at = now
                 /\ p[1].improvement_trend = "stable"]_vars

\* a passing first attempt has just been recorded
C7_Witness ==
    \E h \in Handlers :
        /\ pc[h] = "done" /\ frame[h].current = <<>> /\ frame[h].is_passing
        /\ Len(Progress(<<req[h].user_id, req[h].verseId>>)) = 1
        /\ Progress(<<req[h].user_id, req[h].verseId>>)[1].is_memorized

\* C8: once every call has returned, is_memorized of each pair equals the
\* pass flag (score >= 90) of the pair's most recent attempt.
C8_MemorizedIsLatestPassFlag ==
    Quiet => \A pair \in Pairs :
        LET a == Attempts(pair)
        IN a # <<>> =>
             /\ Len(Progress(pair)) = 1
             /\ Progress(pair)[1].is_memorized = (a[Len(a)].score >= PassingScore)

\* C9: once every call has returned, a pair with two or more attempts has
\* latest_score equal to the last score, and its trend compares the last
\* score with the one before it.
C9_TrendFromPrecedingScore ==
    Quiet => \A pair \in Pairs :
        LET a == Attempts(pair)
            n == Len(a)
        IN n >= 2 =>
             /\ Len(Progress(pair)) = 1
             /\ Progress(pair)[1].latest_score = a[n].score
             /\ Progress(pair)[1].improvement_trend =
                   (IF a[n].score > a[n - 1].score THEN "improving"
                    ELSE IF a[n].score < a[n - 1].score THEN "declining"
                    ELSE "stable")

\* C10: once every call has returned, average_score of each pair is the mean
\* of the pair's scores: average_score * total_attempts = sum of the scores.
C10_AverageIsMean ==
    Quiet => \A pair \in Pairs :
        Attempts(pair) # <<>> =>
            /\ MeanMatches(pair)
            /\ Progress(pair)[1].average_score[1] * Progress(pair)[1].total_attempts
                 = SumScores(Attempts(pair)) * Progress(pair)[1].average_score[2]

RECURSIVE HasSpaceRun(_, _)
HasSpaceRun(text, n) ==
    /\ Len(text) >= n
    /\ \/ \A i \in 1..n : text[i] = " "
       \/ HasSpaceRun(Tail(text), n)

\* C19: for every text without a run of three or more spaces, normalizing the
\* normalized text yields the same tokens as normalizing the text once.
C19_NormalizeIdempotentOnTokens ==
    (Len(result) = 2 /\ ~HasSpaceRun(args.text, 3)) => split(result[2]) = split(result[1])

\* a text with capitals, punctuation or hyphens between its words has been
\* normalized twice and has more than one token
C19_Witness ==
    /\ Len(result) = 2
    /\ ~HasSpaceRun(args.text, 3)
    /\ result[1] # args.text
    /\ Len(split(result[1])) >= 2

\* the indices of the rows stored for position i
RowsAt(rows, i) == {k \in 1..Len(rows) : rows[k].position = i}

\* the first n tokens of the two sequences are equal
SamePrefix(u, c, n) == \A i \in 1..n : u[i] = c[i]

\* C15: for every index below both lengths the alignment stores exactly one
\* row when the tokens differ, a wrong_word with the expected and the actual
\* token, and no row when they are equal.
C15_PositionalWrongWord ==
    result # <<>> =>
        LET u == args.user_words
            c == args.correct_words
            rows == result[1]
        IN \A i \in 0..(Min(Len(u), Len(c)) - 1) :
              IF u[i + 1] # c[i + 1]
              THEN /\ Cardinality(RowsAt(rows, i)) = 1
                   /\ \A k \in RowsAt(rows, i) :
                         /\ rows[k].error_type = "wrong_word"
                         /\ rows[k].expected_word = c[i + 1]
                         /\ rows[k].actual_word = u[i + 1]
              ELSE RowsAt(rows, i) = {}

\* an aligned pair with a differing token followed by an equal one
C15_Witness ==
    /\ result # <<>>
    /\ \E i \in 1..(Min(Len(args.user_words), Len(args.correct_words)) - 1) :
          /\ args.user_words[i] # args.correct_words[i]
          /\ args.user_words[i + 1] = args.correct_words[i + 1]
          /\ Cardinality(RowsAt(result[1], i - 1)) = 1

\* C16: a submission equal to the first N-k tokens of a reference of N
\* tokens (k > 0) yields exactly k rows, all missing_word without actual
\* token, at positions N-k, ..., N-1.
C16_TruncatedGivesMissingWords ==
    result # <<>> =>
        LET u == args.user_words
            c == args.correct_words
            rows == result[1]
            k == Len(c) - Len(u)
        IN (k > 0 /\ SamePrefix(u, c, Len(u))) =>
              /\ Len(rows) = k
              /\ \A j \in 1..k :
                    /\ rows[j].error_type = "missing_word"
                    /\ rows[j].actual_word = NoWord
                    /\ rows[j].position = Len(c) - k + j - 1

\* a non-empty submission two tokens short of its reference
C16_Witness ==
    /\ result # <<>>
    /\ Len(args.user_words) >= 1
    /\ Len(args.correct_words) = Len(args.user_words) + 2
    /\ SamePrefix(args.user_words, args.correct_words, Len(args.user_words))
    /\ Len(result[1]) = 2

\* C17: a submission whose first len(reference) tokens equal the reference
\* and which is longer yields exactly len(submission) - len(reference) rows,
\* all extra_word without expected token, one per trailing token, at
\* positions len(reference), len(reference) + 1, ...
C17_LongerGivesExtraWords ==
    result # <<>> =>
        LET u == args.user_words
            c == args.correct_words
            rows == result[1]
            k == Len(u) - Len(c)
        IN (k > 0 /\ SamePrefix(u, c, Len(c))) =>
              /\ Len(rows) = k
              /\ \A j \in 1..k :
                    /\ rows[j].error_type = "extra_word"
                    /\ rows[j].expected_word = NoWord
                    /\ rows[j].actual_word = u[Len(c) + j]
                    /\ rows[j].position = Len(c) + j - 1

\* a submission with two tokens after a non-empty matching reference
C17_Witness ==
    /\ result # <<>>
    /\ Len(args.correct_words) >= 1
    /\ Len(args.user_words) = Len(args.correct_words) + 2
    /\ SamePrefix(args.user_words, args.correct_words, Len(args.correct_words))
    /\ Len(result[1]) = 2

\* C18: identical submitted and reference token sequences yield no row.
C18_IdenticalGivesNoRows ==
    (result # <<>> /\ args.user_words = args.correct_words) => result[1] = <<>>

\* two identical sequences of several tokens have been aligned
C18_Witness ==
    /\ result # <<>>
    /\ args.user_words = args.correct_words
    /\ Len(args.user_words) >= 2
    /\ result[1] = <<>>

\* the rows of recitation_errors stored under an attempt, without attempt_id
ErrorsOf(attempt_id) ==
    LET rows == SelectSeq(recitation_errors, LAMBDA r : r.attempt_id = attempt_id)
    IN [k \in 1..Len(rows) |->
           [error_type |-> rows[k].error_type, position |-> rows[k].position,
            expected_word |-> rows[k].expected_word,
            actual_word |-> rows[k].actual_word,
            context_before |-> rows[k].context_before,
            context_after |-> rows[k].context_after]]

\* the handler has finished its work on the submission it holds
Handled(h) == pc[h] \in {"done", "failed"}

\* C11: no Attempt and no ProgressSummary is ever persisted for a score
\* outside [0, 100] or for a passage id that names no passage.
C11_InvalidInputPersistsNothing ==
    /\ \A i \in 1..Len(recitation_attempts) :
          /\ recitation_attempts[i].score \in 0..100
          /\ recitation_attempts[i].verse_id \in verses
    /\ \A i \in 1..Len(student_progress) :
          /\ student_progress[i].best_score \in 0..100
          /\ student_progress[i].verse_id \in verses

\* C12: a submission lacking a required field is rejected, and from its
\* arrival to its response no row of users, recitation_attempts,
\* recitation_errors or student_progress and no session changes.
C12_MissingFieldsRejectedUnchanged ==
    [][\A h \in Handlers :
          /\ (pc[h] = "idle" /\ pc'[h] # "idle"
                /\ req'[h].fields # RequiredFields) => pc'[h] = "rejected"
          /\ (pc[h] = "rejected" \/ pc'[h] = "rejected") =>
                UNCHANGED <<users, session, recitation_attempts,
                            recitation_errors, student_progress, web>>]_vars

\* a submission without score from a client that has no user yet has been
\* rejected
C12_Witness ==
    \E h \in Handlers :
        /\ pc[h] = "rejected"
        /\ "score" \notin req[h].fields
        /\ session[req[h].client] = 0

\* C13: a handled submission without reference text has no Discrepancy row,
\* its Attempt row is stored, and the summary of its pair has been updated
\* with it.
C13_NoReferenceStillRecorded ==
    \A h \in Handlers :
        (Handled(h) /\ req[h].correctAnswer = <<>>) =>
            /\ ErrorsOf(frame[h].attempt_id) = <<>>
            /\ \E i \in 1..Len(recitation_attempts) :
                  recitation_attempts[i].id = frame[h].attempt_id
            /\ LET p == SelectRows(student_progress, req[h].user_id, req[h].verseId)
                   a == SelectRows(recitation_attempts, req[h].user_id, req[h].verseId)
               IN /\ Len(p) = 1
                  /\ p[1].total_attempts = Len(a)
                  /\ p[1].latest_score = req[h].score

\* C14: a handled submission with a non-empty reference text has, under its
\* Attempt, the Discrepancy rows of the alignment of its normalized text
\* against the normalized reference.
C14_ReferenceGivesDiscrepancies ==
    \A h \in Handlers :
        (Handled(h) /\ req[h].correctAnswer # <<>>) =>
            ErrorsOf(frame[h].attempt_id) =
                error_rows(split(normalize_string(req[h].recitation)),
                           split(normalize_string(req[h].correctAnswer)))

\* x is the multiple of 0.1 nearest to n/d
IsRounded(x, n, d) ==
    /\ (10 * x[1]) % x[2] = 0
    /\ LET diff == x[1] * d - n * x[2]
       IN 20 * (IF diff >= 0 THEN diff ELSE -diff) <= x[2] * d

\* the counts and sums of a summary s are those of rows
CountsMatch(s, rows) ==
    /\ s.total_verses_attempted = Len(rows)
    /\ s.verses_memorized = Len(SelectSeq(rows, LAMBDA p : p.is_memorized))
    /\ s.total_attempts = SumField(rows, "total_attempts")
    /\ rows = <<>> => s.average_best_score = Rat(0, 1) /\ s.completion_rate = Rat(0, 1)
    /\ rows # <<>> =>
          IsRounded(s.completion_rate,
                    100 * Len(SelectSeq(rows, LAMBDA p : p.is_memorized)), Len(rows))

\* a summary has been returned to an identified student
Summarized == result # <<>> /\ args.user_id # 0

C21_SequenceNumbersContiguous ==
    \A pair \in Pairs :
        \A k \in 1..Len(Attempts(pair)) : Attempts(pair)[k].attempt_number = k

\* the handler whose step writes student_progress
Writes(h) == pc[h] = "write" /\ pc'[h] # "write"

C24_NoOuterWhitespace ==
    (result # <<>> /\ result[1] # <<>>) =>
        /\ result[1][1] \notin Whitespace
        /\ result[1][Len(result[1])] \notin Whitespace

\* the tokens of c at the indices lo..hi (counted from 0), joined by spaces
TokensJoined(c, lo, hi) == join([k \in 1..(hi - lo + 1) |-> c[lo + k]])

\* C25: every missing_word or wrong_word row at position i has the reference
\* tokens max(0, i-3)..i-1 as before-context and the reference tokens
\* i+1..min(N-1, i+3) as after-context; every extra_word row has the last up
\* to 3 reference tokens as before-context and an empty after-context.
C25_ContextIsThreeTokens ==
    result # <<>> =>
        LET c == args.correct_words
            N == Len(c)
            rows == result[1]
        IN \A k \in 1..Len(rows) :
              LET i == rows[k].position
              IN IF rows[k].error_type = "extra_word"
                 THEN /\ rows[k].context_before = TokensJoined(c, Max(0, N - 3), N - 1)
                      /\ rows[k].context_after = <<>>
                 ELSE /\ rows[k].context_before = TokensJoined(c, Max(0, i - 3), i - 1)
                      /\ rows[k].context_after = TokensJoined(c, i + 1, Min(N - 1, i + 3))

\* a reference of five tokens with rows at its first and at its last position:
\* a context of three tokens leaves a reference token out on each side
C25_Witness ==
    /\ result # <<>>
    /\ Len(args.correct_words) = 5
    /\ RowsAt(result[1], 0) # {}
    /\ RowsAt(result[1], 4) # {}

\* C26: with submissions handled one at a time, once every call has returned
\* first_memorized_at of a summary is present exactly when some attempt of the
\* pair had a score of at least 90, and exactly when best_score is at least 90.
C26_FirstMemorizedIffPassed ==
    Quiet => \A pair \in Pairs :
        \A i \in 1..Len(Progress(pair)) :
            LET p == Progress(pair)[i]
                a == Attempts(pair)
            IN /\ (p.first_memorized_at # NoTime) <=>
                      (\E k \in 1..Len(a) : a[k].score >= PassingScore)
               /\ (p.first_memorized_at # NoTime) <=> (p.best_score >= PassingScore)

\* every summary counts at least one attempt and its latest and average
\* scores do not exceed its best score
SummaryBounds ==
    \A i \in 1..Len(student_progress) :
        LET p == student_progress[i]
        IN /\ p.total_attempts >= 1
           /\ p.latest_score <= p.best_score
           /\ p.average_score[1] <= p.best_score * p.average_score[2]

\* C27: in every reachable state, for every interleaving of the handlers,
\* every summary has total_attempts >= 1, latest_score <= best_score and
\* average_score <= best_score, and no step decreases the total_attempts of a
\* pair.
C27_SummaryBoundsAndMonotone ==
    /\ []SummaryBounds
    /\ [][\A pair \in Pairs :
             Progress(pair) # <<>> =>
                 /\ Progress(pair)' # <<>>
                 /\ Progress(pair)'[1].total_attempts >= Progress(pair)[1].total_attempts]_vars

\* a pair with a summary has had a second attempt handled
C27_Witness ==
    \E pair \in Pairs, h \in Handlers :
        /\ Len(Attempts(pair)) = 2
        /\ Progress(pair) # <<>>
        /\ pc[h] = "failed" /\ pair = <<req[h].user_id, req[h].verseId>>

\* the step inserts the users row of a guest on behalf of handler h
CreatesAnonymousUser(h) ==
    /\ Len(users') = Len(users) + 1
    /\ users'[Len(users')].password_hash = "anonymous"
    /\ req'[h].anonymous_user_id = Len(users')
    /\ req'[h].modified /\ ~req[h].modified

\* handler h holds a guest id it has created and not yet sent to its client
HoldsNewAnonymousUser(h) ==
    /\ pc[h] # "idle" /\ req[h].modified
    /\ req[h].current_user = 0 /\ req[h].anonymous_user_id # 0

\* C28: a guest users row is created for a client that is not logged in only
\* when neither its cookie nor another of its requests holds a guest id; a
\* submission or progress query of a client that is not logged in and whose
\* cookie holds a guest id is attributed to that id; and an Attempt is stored
\* under a guest id only while the client's cookie holds that id or the
\* request storing it has created the id.
C28_OneAnonymousUserPerSession ==
    [][\A h \in Handlers :
          LET c == req'[h].client
          IN /\ (CreatesAnonymousUser(h) /\ current_user[c] = 0) =>
                   /\ session[c] = 0
                   /\ \A g \in Handlers \ {h} :
                         ~(req[g].client = c /\ HoldsNewAnonymousUser(g))
             /\ (pc[h] \in {"idle", "user"} /\ pc'[h] \in {"count", "done"}
                   /\ req'[h].user_id # 0
                   /\ current_user[c] = 0 /\ session[c] # 0) =>
                   req'[h].user_id = session[c]
             /\ (pc[h] = "create" /\ pc'[h] = "select"
                   /\ users[req[h].user_id].password_hash = "anonymous") =>
                   \/ session[c] = req[h].user_id
                   \/ req[h].modified /\ req[h].anonymous_user_id = req[h].user_id]_vars

RECURSIVE SumCounts(_)
\* the counts of a set of error_patterns rows, added up
SumCounts(patterns) ==
    IF patterns = {} THEN 0
    ELSE LET x == CHOOSE y \in patterns : TRUE
         IN x.count + SumCounts(patterns \ {x})

\* the recitation_errors rows stored under the attempts of a student
ErrorRowsOf(student_id) ==
    {k \in 1..Len(recitation_errors) :
        \E j \in 1..Len(recitation_attempts) :
            /\ recitation_attempts[j].id = recitation_errors[k].attempt_id
            /\ recitation_attempts[j].student_id = student_id}

\* handler h has answered a read of the given route
Answered(h, route) == pc[h] = "done" /\ req[h].route = route

\* C23: the step in which get_error_analysis runs changes no row of
\* recitation_attempts, recitation_errors or student_progress, and the counts
\* of the error_patterns it returns add up to the number of recitation_errors
\* rows stored under the attempts of the student asked for.
C23_ErrorAnalysisIsPureRead ==
    [][\A h \in Handlers :
          (pc[h] = "idle" /\ Answered(h, "errors")') =>
              /\ UNCHANGED <<recitation_attempts, recitation_errors, student_progress>>
              /\ frame'[h].body # <<>> =>
                    SumCounts(frame'[h].body[1].error_patterns) =
                        Cardinality(ErrorRowsOf(req'[h].student_id))]_vars

\* an analysis with two kinds of error has been returned while rows of
\* another student's attempts are stored too
C23_Witness ==
    \E h \in Handlers :
        /\ Answered(h, "errors")
        /\ frame[h].body # <<>>
        /\ Cardinality(frame[h].body[1].error_patterns) >= 2
        /\ Cardinality(ErrorRowsOf(req[h].student_id)) < Len(recitation_errors)

\* C29: a read of a student's progress or error analysis returns data exactly
\* when the requester is logged in and is that student or has the teacher or
\* admin role; every other requester gets no data and the status of a refusal
\* (403 Unauthorized, or the redirect to the login page when not logged in).
C29_ReadsOnlyForSelfOrTeacher ==
    \A h \in Handlers :
        (Answered(h, "progress") \/ Answered(h, "errors")) =>
            LET requester == req[h].current_user
                allowed == /\ requester # 0
                           /\ \/ requester = req[h].student_id
                              \/ users[requester].role \in {"teacher", "admin"}
            IN IF allowed
               THEN frame[h].status = 200 /\ frame[h].body # <<>>
               ELSE frame[h].status \in {302, 403} /\ frame[h].body = <<>>

\* a logged-in student has been refused the error analysis of another student
\* who has rows
C29_Witness ==
    \E h \in Handlers :
        /\ Answered(h, "errors")
        /\ frame[h].status = 403
        /\ ErrorRowsOf(req[h].student_id) # {}

\* the active rows of a (class, student) pair in a membership table
ActiveRowsIn(table, class_id, student_id) ==
    {k \in 1..Len(table) : /\ table[k].class_id = class_id
                           /\ table[k].student_id = student_id
                           /\ table[k].is_active}

ActiveRows(class_id, student_id) ==
    ActiveRowsIn(class_memberships, class_id, student_id)

\* no pair has two active membership rows
OneActiveMembership ==
    \A k1, k2 \in 1..Len(class_memberships) :
        (/\ class_memberships[k1].class_id = class_memberships[k2].class_id
         /\ class_memberships[k1].student_id = class_memberships[k2].student_id
         /\ class_memberships[k1].is_active /\ class_memberships[k2].is_active)
            => k1 = k2

\* C30: with the requests handled one at a time, no (class, student) pair ever
\* has two active membership rows; a request of the class's teacher to add a
\* student who is an active member is answered 409 and changes no row; and a
\* request of the class's teacher to remove a student leaves no active row of
\* the pair.
C30_OneActiveMembershipPerPair ==
    /\ []OneActiveMembership
    /\ [][\A h \in Handlers :
             /\ (pc[h] = "idle" /\ req'[h].route = "add"
                   /\ ClassGate(req'[h].client, req'[h].class_id) = 0
                   /\ ActiveRows(req'[h].class_id, req'[h].student_id) # {}) =>
                   /\ frame'[h].status = 409 /\ pc'[h] = "done"
                   /\ UNCHANGED class_memberships
             /\ (pc[h] = "idle" /\ req'[h].route = "remove"
                   /\ frame'[h].status = 200) =>
                   /\ Len(class_memberships') = Len(class_memberships)
                   /\ ActiveRowsIn(class_memberships', req'[h].class_id,
                                   req'[h].student_id) = {}]_vars

\* a student removed from a class and added again has two membership rows of
\* which one is active, and a further request to add that student has been
\* answered 409
C30_Witness ==
    \E h \in Handlers :
        /\ pc[h] = "done" /\ req[h].route = "add" /\ frame[h].status = 409
        /\ Cardinality(ActiveRows(req[h].class_id, req[h].student_id)) = 1
        /\ Cardinality({k \in 1..Len(class_memberships) :
               /\ class_memberships[k].class_id = req[h].class_id
               /\ class_memberships[k].student_id = req[h].student_id}) = 2

====
